---------------------------- MODULE Spec2Model ----------------------------
(***************************************************************************)
(* Model of clp_package_utils/scripts/archive_manager.py: the command-line *)
(* front-end that parses `find` / `del by-ids` / `del by-filter`, loads    *)
(* the package configuration, checks the storage backend, validates the    *)
(* timestamps, builds the container spec, runs the in-container worker and *)
(* removes the generated config file.                                      *)
(*                                                                         *)
(* A command-line token is a sequence of symbols.  A numeric literal is    *)
(* spelled character by character (<<"-", "1">>), so that int() and str()  *)
(* are computed; a keyword or an archive ID is one symbol (<<"find">>).    *)
(***************************************************************************)
EXTENDS Integers, Sequences, FiniteSets, TLC

\* ------------------------------------------------------------------------
\* Command/Argument Constants
\* ------------------------------------------------------------------------
FIND_COMMAND == <<"find">>
DEL_COMMAND == <<"del">>
BY_IDS_COMMAND == <<"by-ids">>
BY_FILTER_COMMAND == <<"by-filter">>
BEGIN_TS_ARG == <<"--begin-ts">>
END_TS_ARG == <<"--end-ts">>
DRY_RUN_ARG == <<"--dry-run">>
CONFIG_ARG == <<"--config">>

\* The optional value of an argument without default: None or a value.
None == <<>>
Some(x) == <<x>>

\* ------------------------------------------------------------------------
\* int() and str(): type=int of the timestamp options, str() of the
\* values forwarded to the worker.
\* ------------------------------------------------------------------------
DigitChars == <<"0", "1", "2", "3", "4", "5", "6", "7", "8", "9">>

IsDigit(c) == \E i \in 1..Len(DigitChars) : DigitChars[i] = c

DigitValue(c) == (CHOOSE i \in 1..Len(DigitChars) : DigitChars[i] = c) - 1

\* The digits of a literal, its sign removed.
LiteralBody(tok) == IF tok # <<>> /\ Head(tok) \in {"-", "+"} THEN Tail(tok) ELSE tok

\* int(tok) succeeds: an optional sign and at least one decimal digit.
IsIntLiteral(tok) ==
    /\ LiteralBody(tok) # <<>>
    /\ \A i \in 1..Len(LiteralBody(tok)) : IsDigit(LiteralBody(tok)[i])

RECURSIVE DigitsValue(_)
DigitsValue(ds) ==
    IF ds = <<>> THEN 0
    ELSE 10 * DigitsValue(SubSeq(ds, 1, Len(ds) - 1)) + DigitValue(ds[Len(ds)])

int(tok) ==
    IF Head(tok) = "-" THEN 0 - DigitsValue(LiteralBody(tok))
    ELSE DigitsValue(LiteralBody(tok))

RECURSIVE Digits(_)
Digits(n) ==
    IF n < 10 THEN <<DigitChars[n + 1]>>
    ELSE Append(Digits(n \div 10), DigitChars[(n % 10) + 1])

str(n) == IF n < 0 THEN <<"-">> \o Digits(0 - n) ELSE Digits(n)

\* ------------------------------------------------------------------------
\* The argument parsers built in main (argparse).
\* ------------------------------------------------------------------------
\* What parse_args produces: ok is FALSE when the parser exits with a usage
\* error; an attribute the chosen subcommand does not define keeps the
\* placeholder below and is never read.
EmptyNamespace ==
    [ok |-> TRUE, config |-> None, subcommand |-> None, del_subcommand |-> None,
     begin_ts |-> 0, end_ts |-> None, dry_run |-> FALSE, ids |-> <<>>]

UsageError == [EmptyNamespace EXCEPT !.ok = FALSE]

StartsWithDash(tok) ==
    /\ tok # <<>>
    /\ Head(tok) \in {"-", "--begin-ts", "--end-ts", "--dry-run", "--config"}

\* argparse's negative-number matcher: "-" followed by digits only.
LooksLikeNegativeNumber(tok) ==
    /\ Len(tok) > 1
    /\ Head(tok) = "-"
    /\ \A i \in 2..Len(tok) : IsDigit(tok[i])

\* A token a parser with the option strings `options` takes as an argument
\* ("A") rather than as an option string ("O"): it does not start with a
\* dash, or it is a negative number (no parser here has an option that
\* looks like one).
IsArgument(tok, options) ==
    \/ ~StartsWithDash(tok)
    \/ (tok \notin options /\ LooksLikeNegativeNumber(tok))

\* The option strings of args_parser, of find_parser and del_filter_parser
\* (the same two), of del_parser and of del_id_parser.
TopOptions == {CONFIG_ARG}
TsOptions == {BEGIN_TS_ARG, END_TS_ARG}
DelOptions == {DRY_RUN_ARG}
DelIdOptions == {}

\* find_parser and del_filter_parser: --begin-ts INT and --end-ts INT, no
\* positional argument.  A stray argument or an unknown option is left
\* over and parse_args rejects it; an option needs one argument that
\* int() accepts; a repeated option overwrites the earlier value.
RECURSIVE ParseTsOptions(_, _)
ParseTsOptions(toks, ns) ==
    IF toks = <<>> THEN ns
    ELSE IF Head(toks) \notin TsOptions THEN UsageError
    ELSE IF Len(toks) < 2 \/ ~IsArgument(toks[2], TsOptions) THEN UsageError
    ELSE IF ~IsIntLiteral(toks[2]) THEN UsageError
    ELSE IF Head(toks) = BEGIN_TS_ARG
         THEN ParseTsOptions(SubSeq(toks, 3, Len(toks)),
                             [ns EXCEPT !.begin_ts = int(toks[2])])
         ELSE ParseTsOptions(SubSeq(toks, 3, Len(toks)),
                             [ns EXCEPT !.end_ts = Some(int(toks[2]))])

\* find_parser: --begin-ts defaults to 0, --end-ts to None.
ParseFind(toks, ns) ==
    ParseTsOptions(toks, [ns EXCEPT !.subcommand = FIND_COMMAND,
                                    !.begin_ts = 0, !.end_ts = None])

\* del_filter_parser: --begin-ts defaults to 0, --end-ts is required.
ParseDelFilter(toks, ns) ==
    LET r == ParseTsOptions(toks, [ns EXCEPT !.del_subcommand = BY_FILTER_COMMAND,
                                             !.begin_ts = 0, !.end_ts = None])
    IN  IF r.ok /\ r.end_ts = None THEN UsageError ELSE r

\* del_id_parser: ids, nargs="+".  It has no option of its own, so any
\* option string among the IDs is left over and rejected.
ParseDelIds(toks, ns) ==
    IF toks = <<>> THEN UsageError
    ELSE IF \E i \in 1..Len(toks) : ~IsArgument(toks[i], DelIdOptions) THEN UsageError
    ELSE [ns EXCEPT !.del_subcommand = BY_IDS_COMMAND, !.ids = toks]

\* Mutant of ParseDel: --dry-run is taken but not stored.
RECURSIVE ParseDel_IgnoresDryRun(_, _)
ParseDel_IgnoresDryRun(toks, ns) ==
    IF toks = <<>> THEN UsageError
    ELSE IF IsArgument(Head(toks), DelOptions)
         THEN IF Head(toks) = BY_IDS_COMMAND THEN ParseDelIds(Tail(toks), ns)
              ELSE IF Head(toks) = BY_FILTER_COMMAND THEN ParseDelFilter(Tail(toks), ns)
              ELSE UsageError
    ELSE IF Head(toks) = DRY_RUN_ARG
         THEN ParseDel_IgnoresDryRun(Tail(toks), ns)
    ELSE UsageError

\* del_parser: --dry-run (store_true) before the required del_subcommand;
\* the subcommand takes every token after it, option strings included.
RECURSIVE ParseDel(_, _)
ParseDel(toks, ns) ==
    IF toks = <<>> THEN UsageError
    ELSE IF IsArgument(Head(toks), DelOptions)
         THEN IF Head(toks) = BY_IDS_COMMAND THEN ParseDelIds(Tail(toks), ns)
              ELSE IF Head(toks) = BY_FILTER_COMMAND THEN ParseDelFilter(Tail(toks), ns)
              ELSE UsageError
    ELSE IF Head(toks) = DRY_RUN_ARG
         THEN ParseDel(Tail(toks), [ns EXCEPT !.dry_run = TRUE])
    ELSE UsageError

\* args_parser: --config PATH before the required subcommand; the
\* subcommand takes every token after it.
RECURSIVE ParseTop(_, _)
ParseTop(toks, ns) ==
    IF toks = <<>> THEN UsageError
    ELSE IF IsArgument(Head(toks), TopOptions)
         THEN IF Head(toks) = FIND_COMMAND THEN ParseFind(Tail(toks), ns)
              ELSE IF Head(toks) = DEL_COMMAND
                   THEN ParseDel(Tail(toks), [ns EXCEPT !.subcommand = DEL_COMMAND,
                                                        !.dry_run = FALSE])
              ELSE UsageError
    ELSE IF Head(toks) = CONFIG_ARG
         THEN IF Len(toks) < 2 \/ ~IsArgument(toks[2], TopOptions) THEN UsageError
              ELSE ParseTop(SubSeq(toks, 3, Len(toks)),
                            [ns EXCEPT !.config = Some(toks[2])])
    ELSE UsageError

parse_args(args) == ParseTop(args, EmptyNamespace)


\* ------------------------------------------------------------------------
\* _validate_timestamps
\* ------------------------------------------------------------------------
\* Mutant of _validate_timestamps: the non-negativity check is missing.
_validate_timestamps_OrderOnly(begin_ts, end_ts) ==
    IF begin_ts > end_ts
    THEN [returned |-> FALSE, logged |-> <<"begin-ts must be <= end-ts">>]
    ELSE [returned |-> TRUE, logged |-> <<>>]

\* What the function returns and what it logs.
_validate_timestamps(begin_ts, end_ts) ==
    IF begin_ts > end_ts
    THEN [returned |-> FALSE, logged |-> <<"begin-ts must be <= end-ts">>]
    ELSE IF end_ts < 0 \/ begin_ts < 0
    THEN [returned |-> FALSE, logged |-> <<"begin-ts and end-ts must be non-negative.">>]
    ELSE [returned |-> TRUE, logged |-> <<>>]

\* ------------------------------------------------------------------------
\* The command lines main is run with (argv[1:]).
\* ------------------------------------------------------------------------
\* The longest run of tokens after the subcommand.
MaxArgs == 4

ArchiveIds == {<<"a1">>, <<"a2">>}
TsLiterals == {<<"-", "1">>, <<"0">>, <<"1">>, <<"0", "1", "0">>}
ArgTokens == {BEGIN_TS_ARG, END_TS_ARG, DRY_RUN_ARG} \union ArchiveIds \union TsLiterals

\* The subcommand part of a command line: find, del [--dry-run] by-ids,
\* del [--dry-run] by-filter.
Subcommands ==
    {<<FIND_COMMAND>>}
    \union {<<DEL_COMMAND>> \o f \o <<s>> :
               f \in {<<>>, <<DRY_RUN_ARG>>},
               s \in {BY_IDS_COMMAND, BY_FILTER_COMMAND}}

\* Nothing, or --config PATH, in front of the subcommand.
Prefixes == {<<>>, <<CONFIG_ARG, <<"cfg">>>>}

\* Command lines with no usable subcommand, or with an option of one
\* parser given to another.
OddArgvs ==
    {<<>>, <<DEL_COMMAND>>, <<CONFIG_ARG>>, <<<<"a1">>, FIND_COMMAND>>,
     <<DRY_RUN_ARG, DEL_COMMAND, BY_IDS_COMMAND, <<"a1">>>>,
     <<FIND_COMMAND, CONFIG_ARG, <<"cfg">>>>}

\* A subcommand followed by up to MaxArgs tokens in any order (well-formed
\* or not), with or without --config PATH in front; or an odd one.
IsArgv(a) ==
    \/ a \in OddArgvs
    \/ \E p \in Prefixes, c \in Subcommands, k \in 0..MaxArgs :
          \E r \in [1..k -> ArgTokens] : a = p \o c \o r

\* ------------------------------------------------------------------------
\* State
\* ------------------------------------------------------------------------
VARIABLES
    argv,            \* argv[1:], the command line of this invocation
    pc,              \* the statement of main about to run
    parsed_args,     \* the namespace parse_args returned
    storage_type,    \* clp_config.archive_output.storage.type, once loaded
    calls,           \* the calls made so far, in order
    log,             \* the error messages logged so far
    validated,       \* what each call of _validate_timestamps returned
    host_config,     \* the generated host-side config file: "absent", "present", "deleted"
    cmd,             \* the command line handed to subprocess.run
    worker,          \* the worker subprocess: "none", "running", "exited"
    returncode,      \* the worker's exit status, once it has exited
    result           \* how main ended: [kind, code]

vars == <<argv, pc, parsed_args, storage_type, calls, log, validated, host_config,
          cmd, worker, returncode, result>>

StorageTypes == {"fs", "s3"}
FS == "fs"
NotLoaded == "not-loaded"

\* The statuses the worker can exit with.
WorkerStatuses == {0, 1}

Running == [kind |-> "running", code |-> 0]
Returned(code) == [kind |-> "return", code |-> code]
SystemExit(code) == [kind |-> "SystemExit", code |-> code]
CalledProcessError(code) == [kind |-> "CalledProcessError", code |-> code]

\* The opaque values the container helpers return.
container_name == <<"container_name">>
generated_config_path_on_container == <<"generated_config_path_on_container">>
container_start_cmd == <<<<"container_start_cmd">>>>

Init ==
    /\ IsArgv(argv)
    /\ pc = "parse_args"
    /\ parsed_args = EmptyNamespace
    /\ storage_type = NotLoaded
    /\ calls = <<>>
    /\ log = <<>>
    /\ validated = <<>>
    /\ host_config = "absent"
    /\ cmd = <<>>
    /\ worker = "none"
    /\ returncode = 0
    /\ result = Running

\* main ends: by return, or by an exception leaving it.
Finish(r) ==
    /\ pc' = "done"
    /\ result' = r

Goto(label) ==
    /\ pc' = label
    /\ UNCHANGED result

\* except: logger.exception("Failed to load config."); return -1
FailedToLoadConfig ==
    /\ log' = Append(log, "Failed to load config.")
    /\ Finish(Returned(-1))

\* parsed_args = args_parser.parse_args(argv[1:]); a usage error exits
\* the process with status 2.
ParseArgs ==
    /\ pc = "parse_args"
    /\ parsed_args' = parse_args(argv)
    /\ IF parsed_args'.ok THEN Goto("load_config_file") ELSE Finish(SystemExit(2))
    /\ UNCHANGED <<argv, storage_type, calls, log, validated, host_config, cmd, worker,
                   returncode>>

\* try: clp_config = load_config_file(...) -- except: return -1
LoadConfigFile ==
    /\ pc = "load_config_file"
    /\ calls' = Append(calls, <<"load_config_file">>)
    /\ \E raised \in BOOLEAN, st \in StorageTypes :
          IF raised
          THEN FailedToLoadConfig /\ UNCHANGED storage_type
          ELSE Goto("validate_logs_dir") /\ storage_type' = st /\ UNCHANGED log
    /\ UNCHANGED <<argv, parsed_args, validated, host_config, cmd, worker, returncode>>

\* try: clp_config.validate_logs_dir() -- except: return -1
ValidateLogsDir ==
    /\ pc = "validate_logs_dir"
    /\ calls' = Append(calls, <<"validate_logs_dir">>)
    /\ \E raised \in BOOLEAN :
          IF raised THEN FailedToLoadConfig
          ELSE Goto("load_db_credentials") /\ UNCHANGED log
    /\ UNCHANGED <<argv, parsed_args, storage_type, validated, host_config, cmd, worker,
                   returncode>>

\* Mutant of LoadDbCredentials: the except branch logs and does not return.
LoadDbCredentials_NoReturn ==
    /\ pc = "load_db_credentials"
    /\ calls' = Append(calls, <<"validate_and_load_db_credentials_file", "False">>)
    /\ \E raised \in BOOLEAN :
          /\ log' = IF raised THEN Append(log, "Failed to load config.") ELSE log
          /\ Goto("check_storage_type")
    /\ UNCHANGED <<argv, parsed_args, storage_type, validated, host_config, cmd, worker,
                   returncode>>

\* try: validate_and_load_db_credentials_file(clp_config, clp_home, False)
\* -- except: return -1
LoadDbCredentials ==
    /\ pc = "load_db_credentials"
    /\ calls' = Append(calls, <<"validate_and_load_db_credentials_file", "False">>)
    /\ \E raised \in BOOLEAN :
          IF raised THEN FailedToLoadConfig
          ELSE Goto("check_storage_type") /\ UNCHANGED log
    /\ UNCHANGED <<argv, parsed_args, storage_type, validated, host_config, cmd, worker,
                   returncode>>

\* The error logged for a storage type other than FS.
UnsupportedStorageType(st) ==
    "Archive deletion is not supported for storage type: " \o st \o "."

\* Mutant of CheckStorageType: the error is logged and main goes on.
CheckStorageType_NoReturn ==
    /\ pc = "check_storage_type"
    /\ log' = IF FS # storage_type
              THEN Append(log, UnsupportedStorageType(storage_type))
              ELSE log
    /\ Goto("validate_input")
    /\ UNCHANGED <<argv, parsed_args, storage_type, calls, validated, host_config, cmd,
                   worker, returncode>>

\* if StorageType.FS != storage_type: logger.error(...); return -1
CheckStorageType ==
    /\ pc = "check_storage_type"
    /\ IF FS # storage_type
       THEN /\ log' = Append(log, UnsupportedStorageType(storage_type))
            /\ Finish(Returned(-1))
       ELSE /\ Goto("validate_input")
            /\ UNCHANGED log
    /\ UNCHANGED <<argv, parsed_args, storage_type, calls, validated, host_config, cmd,
                   worker, returncode>>

\* Mutant of ValidatesTimestamps: find is not validated.
ValidatesTimestamps_DelOnly(args) ==
    /\ DEL_COMMAND = args.subcommand
    /\ BY_FILTER_COMMAND = args.del_subcommand

\* Whether the input validation calls _validate_timestamps.
ValidatesTimestamps(args) ==
    IF DEL_COMMAND = args.subcommand
    THEN BY_FILTER_COMMAND = args.del_subcommand
    ELSE IF FIND_COMMAND = args.subcommand
    THEN args.end_ts # None
    ELSE FALSE

\* Mutant of ValidateInput: the validator's result is not tested.
ValidateInput_IgnoresResult ==
    /\ pc = "validate_input"
    /\ IF ValidatesTimestamps(parsed_args)
       THEN LET v == _validate_timestamps(parsed_args.begin_ts, parsed_args.end_ts[1])
            IN  /\ calls' = Append(calls, <<"_validate_timestamps">>)
                /\ validated' = Append(validated, v.returned)
                /\ log' = log \o v.logged
       ELSE UNCHANGED <<calls, validated, log>>
    /\ Goto("generate_container_name")
    /\ UNCHANGED <<argv, parsed_args, storage_type, host_config, cmd, worker, returncode>>

\* Validate input depending on subcommands.
ValidateInput ==
    /\ pc = "validate_input"
    /\ IF ValidatesTimestamps(parsed_args)
       THEN LET v == _validate_timestamps(parsed_args.begin_ts, parsed_args.end_ts[1])
            IN  /\ calls' = Append(calls, <<"_validate_timestamps">>)
                /\ validated' = Append(validated, v.returned)
                /\ log' = log \o v.logged
                /\ IF ~v.returned
                   THEN Finish(Returned(-1))
                   ELSE Goto("generate_container_name")
       ELSE /\ UNCHANGED <<calls, validated, log>>
            /\ Goto("generate_container_name")
    /\ UNCHANGED <<argv, parsed_args, storage_type, host_config, cmd, worker, returncode>>

\* container_name = generate_container_name("archive-manager")
GenerateContainerName ==
    /\ pc = "generate_container_name"
    /\ calls' = Append(calls, <<"generate_container_name", "archive-manager">>)
    /\ Goto("generate_container_config")
    /\ UNCHANGED <<argv, parsed_args, storage_type, log, validated, host_config, cmd,
                   worker, returncode>>

\* container_clp_config, mounts = generate_container_config(clp_config, clp_home)
GenerateContainerConfig ==
    /\ pc = "generate_container_config"
    /\ calls' = Append(calls, <<"generate_container_config">>)
    /\ Goto("dump_container_config")
    /\ UNCHANGED <<argv, parsed_args, storage_type, log, validated, host_config, cmd,
                   worker, returncode>>

\* dump_container_config(...) writes the generated config file on the host.
DumpContainerConfig ==
    /\ pc = "dump_container_config"
    /\ calls' = Append(calls, <<"dump_container_config">>)
    /\ host_config' = "present"
    /\ Goto("generate_container_start_cmd")
    /\ UNCHANGED <<argv, parsed_args, storage_type, log, validated, cmd, worker,
                   returncode>>

\* container_start_cmd = generate_container_start_cmd(...)
GenerateContainerStartCmd ==
    /\ pc = "generate_container_start_cmd"
    /\ calls' = Append(calls, <<"generate_container_start_cmd">>)
    /\ Goto("build_cmd")
    /\ UNCHANGED <<argv, parsed_args, storage_type, log, validated, host_config, cmd,
                   worker, returncode>>

\* Mutant of SubcommandArgs: --dry-run is appended after the del target.
SubcommandArgs_DryRunLast(args) ==
    IF DEL_COMMAND = args.subcommand
    THEN (IF BY_IDS_COMMAND = args.del_subcommand
          THEN <<BY_IDS_COMMAND>> \o args.ids
          ELSE IF BY_FILTER_COMMAND = args.del_subcommand
          THEN <<BY_FILTER_COMMAND, str(args.begin_ts), str(args.end_ts[1])>>
          ELSE <<>>)
         \o (IF TRUE = args.dry_run THEN <<DRY_RUN_ARG>> ELSE <<>>)
    ELSE IF FIND_COMMAND = args.subcommand
    THEN <<BEGIN_TS_ARG, str(args.begin_ts)>>
         \o (IF args.end_ts # None THEN <<END_TS_ARG, str(args.end_ts[1])>> ELSE <<>>)
    ELSE <<>>

\* The subcommand-specific arguments appended to archive_manager_cmd.
SubcommandArgs(args) ==
    IF DEL_COMMAND = args.subcommand
    THEN (IF TRUE = args.dry_run THEN <<DRY_RUN_ARG>> ELSE <<>>)
         \o (IF BY_IDS_COMMAND = args.del_subcommand
             THEN <<BY_IDS_COMMAND>> \o args.ids
             ELSE IF BY_FILTER_COMMAND = args.del_subcommand
             THEN <<BY_FILTER_COMMAND, str(args.begin_ts), str(args.end_ts[1])>>
             ELSE <<>>)
    ELSE IF FIND_COMMAND = args.subcommand
    THEN <<BEGIN_TS_ARG, str(args.begin_ts)>>
         \o (IF args.end_ts # None THEN <<END_TS_ARG, str(args.end_ts[1])>> ELSE <<>>)
    ELSE <<>>

archive_manager_cmd(args) ==
    << <<"python3">>,
       <<"-m">>, <<"clp_package_utils.scripts.native.archive_manager">>,
       <<"--config">>, generated_config_path_on_container,
       args.subcommand >>
    \o SubcommandArgs(args)

\* cmd = container_start_cmd + archive_manager_cmd
BuildCmd ==
    /\ pc = "build_cmd"
    /\ cmd' = container_start_cmd \o archive_manager_cmd(parsed_args)
    /\ Goto("subprocess_run")
    /\ UNCHANGED <<argv, parsed_args, storage_type, calls, log, validated, host_config,
                   worker, returncode>>

\* subprocess.run(cmd, check=True): the worker starts and main blocks.
SubprocessRun ==
    /\ pc = "subprocess_run"
    /\ calls' = Append(calls, <<"subprocess.run">>)
    /\ worker' = "running"
    /\ Goto("wait_worker")
    /\ UNCHANGED <<argv, parsed_args, storage_type, log, validated, host_config, cmd,
                   returncode>>

\* Mutant of WorkerExit: subprocess.run without check=True.
WorkerExit_Unchecked ==
    /\ pc = "wait_worker"
    /\ worker = "running"
    /\ worker' = "exited"
    /\ \E status \in WorkerStatuses : returncode' = status
    /\ Goto("unlink")
    /\ UNCHANGED <<argv, parsed_args, storage_type, calls, log, validated, host_config,
                   cmd>>

\* The worker exits; check=True raises CalledProcessError on a non-zero
\* status, which main does not catch.
WorkerExit ==
    /\ pc = "wait_worker"
    /\ worker = "running"
    /\ worker' = "exited"
    /\ \E status \in WorkerStatuses :
          /\ returncode' = status
          /\ IF status # 0 THEN Finish(CalledProcessError(status)) ELSE Goto("unlink")
    /\ UNCHANGED <<argv, parsed_args, storage_type, calls, log, validated, host_config,
                   cmd>>

\* generated_config_path_on_host.unlink()
Unlink ==
    /\ pc = "unlink"
    /\ calls' = Append(calls, <<"unlink">>)
    /\ host_config' = "deleted"
    /\ Goto("return")
    /\ UNCHANGED <<argv, parsed_args, storage_type, log, validated, cmd, worker,
                   returncode>>

\* return 0
Return ==
    /\ pc = "return"
    /\ Finish(Returned(0))
    /\ UNCHANGED <<argv, parsed_args, storage_type, calls, log, validated, host_config,
                   cmd, worker, returncode>>

Next ==
    \/ ParseArgs
    \/ LoadConfigFile
    \/ ValidateLogsDir
    \/ LoadDbCredentials
    \/ CheckStorageType
    \/ ValidateInput
    \/ GenerateContainerName
    \/ GenerateContainerConfig
    \/ DumpContainerConfig
    \/ GenerateContainerStartCmd
    \/ BuildCmd
    \/ SubprocessRun
    \/ WorkerExit
    \/ Unlink
    \/ Return

Spec == Init /\ [][Next]_vars

\* ------------------------------------------------------------------------
\* _validate_timestamps on its own: every pair of timestamps in a range,
\* which no command line restricts.
\* ------------------------------------------------------------------------
\* The timestamps tried are -MaxTs .. MaxTs.
MaxTs == 4

InitValidate ==
    /\ argv = <<>>
    /\ pc = "call_validate_timestamps"
    /\ \E b \in (0 - MaxTs)..MaxTs, e \in (0 - MaxTs)..MaxTs :
          parsed_args = [EmptyNamespace EXCEPT !.begin_ts = b, !.end_ts = Some(e)]
    /\ storage_type = NotLoaded
    /\ calls = <<>>
    /\ log = <<>>
    /\ validated = <<>>
    /\ host_config = "absent"
    /\ cmd = <<>>
    /\ worker = "none"
    /\ returncode = 0
    /\ result = Running

CallValidateTimestamps ==
    /\ pc = "call_validate_timestamps"
    /\ LET v == _validate_timestamps(parsed_args.begin_ts, parsed_args.end_ts[1])
       IN  /\ calls' = Append(calls, <<"_validate_timestamps">>)
           /\ validated' = Append(validated, v.returned)
           /\ log' = log \o v.logged
    /\ Goto("done")
    /\ UNCHANGED <<argv, parsed_args, storage_type, host_config, cmd, worker, returncode>>

NextValidate == CallValidateTimestamps

SpecValidate == InitValidate /\ [][NextValidate]_vars

\* ------------------------------------------------------------------------
\* Properties
\* ------------------------------------------------------------------------
Called(fn) == \E i \in 1..Len(calls) : calls[i][1] = fn

CallCount(fn) == Cardinality({i \in 1..Len(calls) : calls[i][1] = fn})

Logged(msg) == \E i \in 1..Len(log) : log[i] = msg

EndsWith(s, suffix) ==
    /\ Len(s) >= Len(suffix)
    /\ SubSeq(s, Len(s) - Len(suffix) + 1, Len(s)) = suffix

\* Nothing of the container spec has been built and nothing dispatched.
NothingBuilt ==
    /\ ~Called("generate_container_name")
    /\ ~Called("generate_container_config")
    /\ ~Called("dump_container_config")
    /\ host_config = "absent"
    /\ ~Called("generate_container_start_cmd")
    /\ cmd = <<>>
    /\ ~Called("subprocess.run")
    /\ worker = "none"

IsFind == parsed_args.ok /\ parsed_args.subcommand = FIND_COMMAND
IsDelByIds ==
    /\ parsed_args.ok
    /\ parsed_args.subcommand = DEL_COMMAND
    /\ parsed_args.del_subcommand = BY_IDS_COMMAND
IsDelByFilter ==
    /\ parsed_args.ok
    /\ parsed_args.subcommand = DEL_COMMAND
    /\ parsed_args.del_subcommand = BY_FILTER_COMMAND

\* C1: whatever the subcommand and its arguments, when the configured
\* storage type is not the filesystem one, main returns -1 and generates no
\* container name or config, dumps no config file, builds no start command
\* and launches no worker.
C1_UnsupportedStorageAborts ==
    storage_type \notin {NotLoaded, FS} =>
        /\ NothingBuilt
        /\ (pc = "done" => result = Returned(-1))

C1_Witness ==
    /\ pc = "done"
    /\ storage_type = "s3"
    /\ Called("validate_and_load_db_credentials_file")
    /\ Logged(UnsupportedStorageType("s3"))
    /\ IsDelByFilter
    /\ parsed_args.dry_run

\* C2: when the validator is applied and rejects the pair (for instance
\* find --begin-ts 1 --end-ts 0), main returns -1, no host-side config file
\* is generated and no worker is launched.
C2_RejectedTimestampsAbort ==
    (\E i \in 1..Len(validated) : ~validated[i]) =>
        /\ pc = "done"
        /\ result = Returned(-1)
        /\ ~Called("dump_container_config")
        /\ host_config = "absent"
        /\ ~Called("subprocess.run")
        /\ worker = "none"

C2_Witness ==
    /\ argv = <<FIND_COMMAND, BEGIN_TS_ARG, <<"1">>, END_TS_ARG, <<"0">>>>
    /\ validated = <<FALSE>>
    /\ result = Returned(-1)

\* C3: when load_config_file, validate_logs_dir or the credentials load
\* raises, main returns -1 and no later stage runs: no storage-type error,
\* no timestamp validation, nothing built or dispatched; and the
\* credentials are always loaded with write-back False.
C3_LoadFailureAborts ==
    /\ Logged("Failed to load config.") =>
          /\ pc = "done"
          /\ result = Returned(-1)
          /\ log = <<"Failed to load config.">>
          /\ validated = <<>>
          /\ ~Called("_validate_timestamps")
          /\ NothingBuilt
    /\ \A i \in 1..Len(calls) :
          calls[i][1] = "validate_and_load_db_credentials_file"
              => calls[i] = <<"validate_and_load_db_credentials_file", "False">>

C3_Witness ==
    /\ Logged("Failed to load config.")
    /\ calls[Len(calls)] = <<"validate_and_load_db_credentials_file", "False">>
    /\ result = Returned(-1)

\* C4: _validate_timestamps(begin_ts, end_ts) returns True exactly when
\* 0 <= begin_ts <= end_ts: False when begin_ts > end_ts, False when either
\* is negative whatever their order, True for every non-negative ordered pair.
C4_ValidateTimestamps ==
    pc = "done" =>
        LET b == parsed_args.begin_ts
            e == parsed_args.end_ts[1]
        IN  /\ Len(validated) = 1
            /\ validated[1] <=> (0 <= b /\ b <= e)
            /\ (b > e => ~validated[1])
            /\ (b < 0 \/ e < 0 => ~validated[1])
            /\ (b >= 0 /\ e >= 0 /\ b <= e => validated[1])

C4_Witness ==
    /\ pc = "done"
    /\ parsed_args.begin_ts < 0
    /\ parsed_args.begin_ts <= parsed_args.end_ts[1]
    /\ validated = <<FALSE>>

\* The domain-check stage has run.
DomainCheckDone ==
    \/ validated # <<>>
    \/ Called("generate_container_name")
    \/ pc = "generate_container_name"

\* The domain-check stage has run and let the invocation through.
DomainCheckPassed ==
    \/ Called("generate_container_name")
    \/ pc = "generate_container_name"

\* C5: once the domain-check stage has run, the validator has been called
\* if and only if the command is del by-filter or find with --end-ts; find
\* without --end-ts never calls it and passes the stage whatever its
\* --begin-ts; del by-ids never calls it.
C5_ValidatorAppliedIff ==
    /\ Len(validated) = CallCount("_validate_timestamps")
    /\ Len(validated) <= 1
    /\ validated # <<>> => DomainCheckDone
    /\ DomainCheckDone =>
          (validated # <<>> <=> (IsDelByFilter \/ (IsFind /\ parsed_args.end_ts # None)))
    /\ IsFind /\ parsed_args.end_ts = None => validated = <<>>
    /\ IsFind /\ parsed_args.end_ts = None /\ pc = "done" /\ log = <<>>
          => DomainCheckPassed
    /\ IsDelByIds => validated = <<>>

C5_Witness ==
    /\ IsFind
    /\ parsed_args.end_ts = None
    /\ parsed_args.begin_ts < 0
    /\ DomainCheckPassed
    /\ validated = <<>>

\* The worker's part of cmd, and what follows the subcommand in it.
WorkerCmd == SubSeq(cmd, Len(container_start_cmd) + 1, Len(cmd))
WorkerCmdTail == SubSeq(WorkerCmd, 7, Len(WorkerCmd))

DryRunPart == IF parsed_args.dry_run THEN <<DRY_RUN_ARG>> ELSE <<>>

\* C6: the dispatched command is the container start command followed by
\* <worker-entrypoint> --config <container-side-config-path> <subcommand>
\* and then: for del, --dry-run iff set, then by-ids and the IDs in their
\* given order or by-filter <begin_ts> <end_ts>; for find, --begin-ts
\* <begin_ts> and then --end-ts <end_ts> iff supplied.  So `find` ends with
\* `find --begin-ts 0` and `del by-filter --begin-ts 0 --end-ts 1` with
\* `del by-filter 0 1`.
C6_WorkerCommandLine ==
    cmd # <<>> =>
        /\ SubSeq(cmd, 1, Len(container_start_cmd)) = container_start_cmd
        /\ Len(WorkerCmd) >= 6
        /\ SubSeq(WorkerCmd, 1, 5) =
              << <<"python3">>, <<"-m">>,
                 <<"clp_package_utils.scripts.native.archive_manager">>,
                 <<"--config">>, generated_config_path_on_container >>
        /\ WorkerCmd[6] = parsed_args.subcommand
        /\ WorkerCmd[6] \in {FIND_COMMAND, DEL_COMMAND}
        /\ IsFind /\ parsed_args.end_ts = None =>
              WorkerCmdTail = <<BEGIN_TS_ARG, str(parsed_args.begin_ts)>>
        /\ IsFind /\ parsed_args.end_ts # None =>
              WorkerCmdTail = <<BEGIN_TS_ARG, str(parsed_args.begin_ts),
                                END_TS_ARG, str(parsed_args.end_ts[1])>>
        /\ IsDelByIds =>
              /\ WorkerCmdTail = DryRunPart \o <<BY_IDS_COMMAND>> \o parsed_args.ids
              /\ EndsWith(argv, <<BY_IDS_COMMAND>> \o parsed_args.ids)
        /\ IsDelByFilter =>
              WorkerCmdTail = DryRunPart \o <<BY_FILTER_COMMAND, str(parsed_args.begin_ts),
                                              str(parsed_args.end_ts[1])>>
        /\ argv = <<FIND_COMMAND>> =>
              EndsWith(cmd, <<FIND_COMMAND, BEGIN_TS_ARG, <<"0">>>>)
        /\ argv = <<DEL_COMMAND, BY_FILTER_COMMAND, BEGIN_TS_ARG, <<"0">>,
                    END_TS_ARG, <<"1">>>> =>
              EndsWith(cmd, <<DEL_COMMAND, BY_FILTER_COMMAND, <<"0">>, <<"1">>>>)

C6_Witness ==
    /\ argv = <<DEL_COMMAND, DRY_RUN_ARG, BY_FILTER_COMMAND, END_TS_ARG, <<"0", "1", "0">>>>
    /\ worker = "running"
    /\ EndsWith(cmd, <<DEL_COMMAND, DRY_RUN_ARG, BY_FILTER_COMMAND, <<"0">>, <<"1", "0">>>>)

DryRunAfterIds == <<DEL_COMMAND, BY_IDS_COMMAND, <<"a1">>, <<"a2">>, DRY_RUN_ARG>>
DryRunBeforeByIds == <<DEL_COMMAND, DRY_RUN_ARG, BY_IDS_COMMAND, <<"a1">>, <<"a2">>>>

\* C7, as claimed: `del by-ids a1 a2 --dry-run` is accepted with dry-run
\* set, and the worker command built for it ends with
\* `del --dry-run by-ids a1 a2`.
C7_DryRunAfterIdsAccepted ==
    argv = DryRunAfterIds /\ pc # "parse_args" =>
        /\ parsed_args.ok
        /\ parsed_args.dry_run
        /\ result # SystemExit(2)
        /\ (cmd # <<>> => EndsWith(cmd, DryRunBeforeByIds))

\* C7, amended: `del --dry-run by-ids a1 a2` (the flag before by-ids) is
\* accepted with dry-run set, reaches dispatch when the config loads and
\* the storage type is FS, and its worker command ends with
\* `del --dry-run by-ids a1 a2`; `del by-ids a1 a2 --dry-run` is rejected
\* by the argument parser (exit status 2) before anything is loaded.
C7_DryRunBeforeByIdsAccepted ==
    /\ argv = DryRunBeforeByIds /\ pc # "parse_args" =>
          /\ parsed_args.ok
          /\ parsed_args.dry_run
          /\ parsed_args.ids = << <<"a1">>, <<"a2">> >>
          /\ (pc = "done" /\ log = <<>> => cmd # <<>>)
          /\ (cmd # <<>> => EndsWith(cmd, DryRunBeforeByIds))
    /\ argv = DryRunAfterIds /\ pc # "parse_args" =>
          /\ ~parsed_args.ok
          /\ pc = "done"
          /\ result = SystemExit(2)
          /\ calls = <<>>

C7_Witness ==
    /\ argv = DryRunBeforeByIds
    /\ storage_type = FS
    /\ worker = "exited"
    /\ EndsWith(cmd, DryRunBeforeByIds)

\* C8: every invocation that created the host-side config file has deleted
\* it by the time it ends, whatever the worker's exit status.
C8_ConfigFileTornDown ==
    pc = "done" /\ Called("dump_container_config") => host_config = "deleted"

\* The position of the first call of fn in calls (0 when there is none).
FirstCall(fn) ==
    IF Called(fn) THEN CHOOSE i \in 1..Len(calls) :
                           /\ calls[i][1] = fn
                           /\ \A j \in 1..(i - 1) : calls[j][1] # fn
    ELSE 0

\* C9: the worker is launched at most once; an invocation that passes the
\* config load, the storage check and the domain check launches it exactly
\* once; the config file is deleted only after the worker has exited; main
\* returns 0 only if the worker was launched, exited with status 0 and the
\* file was then deleted; a non-zero exit ends main with a failure.
C9_OneWorkerRunThenCleanup ==
    /\ CallCount("subprocess.run") <= 1
    /\ (worker # "none" <=> CallCount("subprocess.run") = 1)
    /\ pc = "done" /\ DomainCheckPassed => CallCount("subprocess.run") = 1
    /\ pc = "done" /\ parsed_args.ok /\ log = <<>> => CallCount("subprocess.run") = 1
    /\ host_config = "deleted" =>
          /\ worker = "exited"
          /\ returncode = 0
          /\ FirstCall("subprocess.run") < FirstCall("unlink")
    /\ result = Returned(0) =>
          /\ worker = "exited"
          /\ returncode = 0
          /\ host_config = "deleted"
    /\ worker = "exited" /\ returncode # 0 =>
          /\ pc = "done"
          /\ result = CalledProcessError(returncode)
          /\ ~Called("unlink")

C9_Witness ==
    /\ pc = "done"
    /\ result = Returned(0)
    /\ CallCount("subprocess.run") = 1
    /\ host_config = "deleted"
    /\ IsDelByIds

\* C10: every dispatched worker command carries timestamps with
\* begin_ts >= 0 and, when end_ts is there, end_ts >= 0 and
\* begin_ts <= end_ts (find), or 0 <= begin_ts <= end_ts (del by-filter).
C10_ForwardedTimestampsInRange ==
    worker # "none" =>
        /\ IsFind =>
              /\ parsed_args.begin_ts >= 0
              /\ (parsed_args.end_ts # None =>
                    /\ parsed_args.end_ts[1] >= 0
                    /\ parsed_args.begin_ts <= parsed_args.end_ts[1])
        /\ IsDelByFilter =>
              /\ 0 <= parsed_args.begin_ts
              /\ parsed_args.begin_ts <= parsed_args.end_ts[1]

=============================================================================
